---- MODULE Spec2Model ----
(***************************************************************************)
(* Grid trading bot: the grid engine (src/grid_strategy.py) and its        *)
(* supervisor (src/bot_manager.py), with the exchange gateway              *)
(* (src/bybit_client.py) and the status/trade store (src/database.py) as   *)
(* environment.                                                            *)
(*                                                                         *)
(* Prices are integers in hundredths (the code rounds every grid price and *)
(* every auto-adjusted bound to 2 decimals).  The control operations are   *)
(* called from the asyncio handlers of src/api_server.py, which run one at *)
(* a time on the event loop, so there is one control thread; it runs       *)
(* concurrently with the polling workers spawned by start.                 *)
(***************************************************************************)
EXTENDS Integers, Sequences, FiniteSets, TLC

(* ---- bounds of the model ---- *)
MaxStarts == 1       \* start calls that pass the guards
MaxRestarts == 2     \* the same, where a stopped bot is started again
MaxFills == 1        \* orders the exchange fills
MaxFaults == 1       \* gateway calls that fail (open orders, replacement, cancel-all)
MaxClock == 2        \* values of int(time.time()) seen during the run
MaxIterations == 2   \* cycles one polling thread begins
LongRun == 6         \* the same, where the loop reaches its periodic status
MaxLevels == 4       \* grid_levels an engine is constructed with

(* ---- program constants ---- *)
StatusEvery == 6     \* iteration % 6 == 0
RangePercent == 5    \* range_percent = 0.05, in percent

None == 0            \* absent price / absent engine / absent thread

(* ---- rounding ---- *)
\* round(n / d) to the nearest integer, ties to the even one (Python round)
RoundDiv(n, d) ==
    LET q == n \div d
        r == n % d
    IN  IF 2 * r < d THEN q
        ELSE IF 2 * r > d THEN q + 1
        ELSE IF q % 2 = 0 THEN q ELSE q + 1

(* ---- GridTradingStrategy._calculate_grid_prices ---- *)
\* a variant whose step is (upper - lower) / levels
CalculateGridPricesOpenEnd(lower, upper, levels) ==
    [k \in 1..levels |->
        RoundDiv(lower * levels + (k - 1) * (upper - lower), levels)]

\* step = (upper - lower) / (levels - 1); prices[i] = round(lower + step*i, 2)
CalculateGridPrices(lower, upper, levels) ==
    [k \in 1..levels |->
        RoundDiv(lower * (levels - 1) + (k - 1) * (upper - lower), levels - 1)]

(* ---- GridTradingStrategy._find_next_grid_level ---- *)
Abs(x) == IF x < 0 THEN -x ELSE x

\* list.index(v): the first position holding v
IndexOf(s, v) == CHOOSE k \in 1..Len(s) : s[k] = v /\ \A j \in 1..(k - 1) : s[j] # v

\* a variant that takes the last of the nearest levels
CurrentIndexLast(grid, price) ==
    IF \E k \in 1..Len(grid) : grid[k] = price
    THEN IndexOf(grid, price)
    ELSE LET differences == [k \in 1..Len(grid) |-> Abs(grid[k] - price)]
         IN  CHOOSE k \in 1..Len(grid) :
                 /\ \A j \in 1..Len(grid) : differences[k] <= differences[j]
                 /\ \A j \in (k + 1)..Len(grid) : differences[k] < differences[j]

\* position of the filled price in the grid, or of the nearest level
CurrentIndex(grid, price) ==
    IF \E k \in 1..Len(grid) : grid[k] = price
    THEN IndexOf(grid, price)
    ELSE LET differences == [k \in 1..Len(grid) |-> Abs(grid[k] - price)]
             least == CHOOSE m \in {differences[k] : k \in 1..Len(grid)} :
                          \A k \in 1..Len(grid) : m <= differences[k]
         IN  IndexOf(differences, least)

\* a variant that returns the level of the filled order itself
FindNextGridLevelSame(grid, price, side) ==
    LET current_index == CurrentIndex(grid, price)
    IN  IF side = "Buy"
        THEN IF current_index < Len(grid) THEN grid[current_index] ELSE None
        ELSE IF current_index > 1 THEN grid[current_index] ELSE None

\* a variant that applies the upper boundary test to both sides
FindNextGridLevelInner(grid, price, side) ==
    LET current_index == CurrentIndex(grid, price)
    IN  IF current_index < Len(grid)
        THEN IF side = "Buy" THEN grid[current_index + 1]
             ELSE IF current_index > 1 THEN grid[current_index - 1] ELSE None
        ELSE None

\* a variant that continues the grid by one step beyond its ends
FindNextGridLevelExtended(grid, price, side) ==
    LET current_index == CurrentIndex(grid, price)
        step == grid[Len(grid)] - grid[Len(grid) - 1]
    IN  IF side = "Buy"
        THEN IF current_index < Len(grid) THEN grid[current_index + 1]
             ELSE grid[current_index] + step
        ELSE IF current_index > 1 THEN grid[current_index - 1]
             ELSE grid[current_index] - step

\* a variant that wraps around at the ends of the grid
FindNextGridLevelWrapped(grid, price, side) ==
    LET current_index == CurrentIndex(grid, price)
    IN  IF side = "Buy"
        THEN IF current_index < Len(grid) THEN grid[current_index + 1] ELSE grid[1]
        ELSE IF current_index > 1 THEN grid[current_index - 1] ELSE grid[Len(grid)]

\* the next grid price, or None at the boundary
FindNextGridLevel(grid, price, side) ==
    LET current_index == CurrentIndex(grid, price)
    IN  IF side = "Buy"
        THEN IF current_index < Len(grid) THEN grid[current_index + 1] ELSE None
        ELSE IF current_index > 1 THEN grid[current_index - 1] ELSE None

(* ---- inputs ---- *)
NoConfig == [grid_lower |-> 0, grid_upper |-> 0, grid_levels |-> 0, order_amount |-> 0]

\* the configuration requests callers send: the fields as parsed, with the
\* two ways parsing can fail (a missing field, a non-numeric value)
RawConfigs ==
    { [missing |-> FALSE, numeric |-> TRUE, grid_lower |-> 10000, grid_upper |-> 20000,
       grid_levels |-> 3, order_amount |-> 1],
      [missing |-> TRUE, numeric |-> TRUE, grid_lower |-> 10000, grid_upper |-> 20000,
       grid_levels |-> 3, order_amount |-> 1],
      [missing |-> FALSE, numeric |-> FALSE, grid_lower |-> 10000, grid_upper |-> 20000,
       grid_levels |-> 3, order_amount |-> 1],
      [missing |-> FALSE, numeric |-> TRUE, grid_lower |-> 20000, grid_upper |-> 20000,
       grid_levels |-> 3, order_amount |-> 1],
      [missing |-> FALSE, numeric |-> TRUE, grid_lower |-> 10000, grid_upper |-> 20000,
       grid_levels |-> 1, order_amount |-> 1],
      [missing |-> FALSE, numeric |-> TRUE, grid_lower |-> 10000, grid_upper |-> 20000,
       grid_levels |-> 3, order_amount |-> 0] }

\* the same requests with the defects in every combination
AllRawConfigs ==
    [missing : BOOLEAN, numeric : BOOLEAN, grid_lower : {10000, 20000},
     grid_upper : {20000}, grid_levels : {1, 3}, order_amount : {0, 1}]

\* a variant that accepts any order amount
ValidConfigAnyAmount(c) ==
    /\ ~c.missing
    /\ c.numeric
    /\ c.grid_lower < c.grid_upper
    /\ c.grid_levels >= 2

\* the validation of BotManager.configure
ValidConfig(c) ==
    /\ ~c.missing
    /\ c.numeric
    /\ c.grid_lower < c.grid_upper
    /\ c.grid_levels >= 2
    /\ c.order_amount > 0

StoredConfig(c) ==
    [grid_lower |-> c.grid_lower, grid_upper |-> c.grid_upper,
     grid_levels |-> c.grid_levels, order_amount |-> c.order_amount]

\* what get_ticker_price can return: None, or a last price
Prices == {14000, 15000, 23000}
Ticker == Prices \cup {None}

(* ---- state ---- *)
VARIABLES
    running,        \* BotManager.running
    config,         \* BotManager.config
    strategy,       \* BotManager.strategy: index into eng, None before the first start
    bot_thread,     \* BotManager.bot_thread: index into wk, None before the first start
    error_message,  \* BotManager.error_message: whether an error is recorded
    ctl,            \* the control thread: position in the operation, its locals,
                    \* and at "return" the result it hands to the caller
    eng,            \* the GridTradingStrategy objects (the live ones)
    recs,           \* the order_info dicts (the live ones): the heap
    wk,             \* the polling threads: position in _run_bot and locals
    exch,           \* the exchange: orderLinkIds of the open orders
    starts,         \* start calls that have passed the guards so far
    fills,          \* orders filled by the exchange so far
    faults,         \* gateway calls that have failed so far
    dbStatus        \* the newest row of bot_status

vars == <<running, config, strategy, bot_thread, error_message, ctl,
          eng, recs, wk, exch, starts, fills, faults, dbStatus>>

Idle == [pc |-> "idle", op |-> "none", status |-> "none", why |-> "none",
         lower |-> 0, upper |-> 0, price |-> None]

\* the operation returns {'status': ..., 'message': ...}
Return(op, status, why) ==
    [Idle EXCEPT !.pc = "return", !.op = op, !.status = status, !.why = why]

NoCall == [filled_side |-> "none", filled_price |-> 0, side |-> "none", price |-> 0,
           ok |-> FALSE]
NoStatus == [is_running |-> FALSE, parity |-> 0]

\* db.update_bot_status inserts a row, which becomes the newest one: its
\* is_running, and the parity of the number of rows inserted so far
StatusRow(is_running) == [is_running |-> is_running, parity |-> 1 - dbStatus.parity]

(* ---- objects ---- *)
\* An object lives while something refers to it.  A slot of eng, recs or wk
\* whose object is gone holds the Free value and is used again for the next
\* object; free slots at the end are dropped.
FreeEngine == [grid_prices |-> <<>>, lower_price |-> 0, upper_price |-> 0,
               grid_levels |-> 0, active_orders |-> <<>>]
FreeRecord == [id |-> <<"none", 0, 0>>, price |-> 0, side |-> "none", status |-> "free",
               updates |-> 0, trades |-> 0]
NoThread == [pc |-> "none", iteration |-> 0, engine |-> None, open_order_ids |-> {},
             items |-> <<>>, filled_orders |-> <<>>, call |-> NoCall]

Range(s) == {s[k] : k \in 1..Len(s)}

RECURSIVE Trim(_, _)
Trim(s, free) ==
    IF s # <<>> /\ s[Len(s)] = free THEN Trim(SubSeq(s, 1, Len(s) - 1), free) ELSE s

\* the slot the next object goes to
Slot(s, free) ==
    IF \E k \in 1..Len(s) : s[k] = free
    THEN CHOOSE k \in 1..Len(s) : s[k] = free /\ \A j \in 1..(k - 1) : s[j] # free
    ELSE Len(s) + 1

Put(s, k, v) == IF k <= Len(s) THEN [s EXCEPT ![k] = v] ELSE Append(s, v)

LiveEngines(e2, strat, w2) ==
    Trim([e \in 1..Len(e2) |->
             IF e = strat \/ \E w \in 1..Len(w2) : w2[w].engine = e
             THEN e2[e] ELSE FreeEngine], FreeEngine)

LiveRecords(h2, e2, w2) ==
    Trim([r \in 1..Len(h2) |->
             IF \/ \E e \in 1..Len(e2) : r \in Range(e2[e].active_orders)
                \/ \E w \in 1..Len(w2) : r \in Range(w2[w].items)
                                           \cup Range(w2[w].filled_orders)
             THEN h2[r] ELSE FreeRecord], FreeRecord)

\* the next state of the objects, given what the step made of them
Objects(strat, e2, h2, w2) ==
    LET e3 == LiveEngines(e2, strat, w2)
    IN  /\ strategy' = strat
        /\ eng' = e3
        /\ recs' = LiveRecords(h2, e3, w2)
        /\ wk' = Trim(w2, NoThread)

Init ==
    /\ running = FALSE
    /\ config \in {NoConfig} \cup {StoredConfig(c) : c \in {r \in RawConfigs : ValidConfig(r)}}
    /\ strategy = None
    /\ bot_thread = None
    /\ error_message = FALSE
    /\ ctl = Idle
    /\ eng = <<>>
    /\ recs = <<>>
    /\ wk = <<>>
    /\ exch = {}
    /\ starts = 0
    /\ fills = 0
    /\ faults = 0
    /\ dbStatus = NoStatus

(* ---- the active_orders dict ---- *)
\* an orderLinkId: grid_<side>_<price> for the initial orders (stamp 0),
\* grid_<side>_<price>_<int(time.time())> for replacements
LinkId(side, price, stamp) == <<side, price, stamp>>

NewRecord(id, price, side) ==
    [id |-> id, price |-> price, side |-> side, status |-> "active",
     updates |-> 0, trades |-> 0]

\* active_orders[id] = <the dict at heap index r>: a known key keeps its
\* position and gets the new value, a new key goes last
DictPut(orders, heap, id, r) ==
    IF \E j \in 1..Len(orders) : heap[orders[j]].id = id
    THEN [j \in 1..Len(orders) |-> IF heap[orders[j]].id = id THEN r ELSE orders[j]]
    ELSE Append(orders, r)

(* ---- BotManager.configure ---- *)
Configure(c) ==
    /\ ctl.pc = "idle"
    /\ IF ValidConfig(c)
       THEN /\ config' = StoredConfig(c)
            /\ dbStatus' = StatusRow(running)
            /\ ctl' = Return("configure", "success", "none")
       ELSE /\ ctl' = Return("configure", "error", "invalid")
            /\ UNCHANGED <<config, dbStatus>>
    /\ UNCHANGED <<running, strategy, bot_thread, error_message, eng, recs, wk,
                   exch, starts, fills, faults>>

(* ---- GridTradingStrategy.__init__ ---- *)
NewEngine(levels, lower, upper) ==
    [grid_prices |-> CalculateGridPrices(lower, upper, levels),
     lower_price |-> lower, upper_price |-> upper, grid_levels |-> levels,
     active_orders |-> <<>>]

(* ---- GridTradingStrategy.initialize_grid, after the price fetch ---- *)
\* the positions of the grid that get an order at this price
Seeded(grid, current_price) == {k \in 1..Len(grid) : grid[k] # current_price}

\* a variant with the sides exchanged
RECURSIVE PlaceInitialSwapped(_, _, _, _, _)
PlaceInitialSwapped(grid, current_price, placed, k, st) ==
    IF k > Len(grid) THEN st
    ELSE LET price == grid[k]
             side == IF price < current_price THEN "Sell" ELSE "Buy"
             id == <<side, price, 0>>
             r == Slot(st.heap, FreeRecord)
         IN  IF price = current_price \/ k \notin placed
             THEN PlaceInitialSwapped(grid, current_price, placed, k + 1, st)
             ELSE PlaceInitialSwapped(grid, current_price, placed, k + 1,
                      [heap |-> Put(st.heap, r, [id |-> id, price |-> price,
                                                 side |-> side, status |-> "active",
                                                 updates |-> 0, trades |-> 0]),
                       orders |-> Append(st.orders, r),
                       open |-> st.open \cup {id}])

\* the loop over grid_prices from position k on; placed is the set of
\* positions whose place_order call succeeds; st is the heap, the dict and
\* the exchange so far
RECURSIVE PlaceInitial(_, _, _, _, _)
PlaceInitial(grid, current_price, placed, k, st) ==
    IF k > Len(grid) THEN st
    ELSE LET price == grid[k]
             side == IF price < current_price THEN "Buy" ELSE "Sell"
             id == LinkId(side, price, 0)
             r == Slot(st.heap, FreeRecord)
         IN  IF price = current_price \/ k \notin placed
             THEN PlaceInitial(grid, current_price, placed, k + 1, st)
             ELSE PlaceInitial(grid, current_price, placed, k + 1,
                      [heap |-> Put(st.heap, r, NewRecord(id, price, side)),
                       orders |-> DictPut(st.orders, st.heap, id, r),
                       open |-> st.open \cup {id}])

\* GridTradingStrategy(...) as any caller can construct it: with one level
\* the step divides by zero and the constructor raises; otherwise the engine
\* exists, whatever the arguments
Construct(levels, lower, upper) ==
    /\ ctl.pc = "idle"
    /\ IF levels = 1
       THEN /\ ctl' = [Return("construct", "error", "ZeroDivisionError")
                          EXCEPT !.lower = lower, !.upper = upper]
            /\ UNCHANGED <<strategy, eng, recs, wk>>
       ELSE LET kept == LiveEngines(eng, None, wk)
                e == Slot(kept, FreeEngine)
            IN  /\ Objects(e, Put(kept, e, NewEngine(levels, lower, upper)), recs, wk)
                /\ ctl' = [Return("construct", "success", "none")
                              EXCEPT !.lower = lower, !.upper = upper]
    /\ UNCHANGED <<running, config, bot_thread, error_message, exch, starts, fills,
                   faults, dbStatus>>

\* _find_next_grid_level(current_price, side) called on the engine with any
\* price: on an empty grid min() raises; otherwise the caller gets the next
\* level or None.  The result is handed over in ctl: lower holds the price
\* asked about, why the side, price the level returned
FindNext(current_price, side) ==
    /\ ctl.pc = "idle"
    /\ strategy # None
    /\ LET grid == eng[strategy].grid_prices
       IN  IF grid = <<>>
           THEN ctl' = [Return("find_next", "error", side) EXCEPT !.lower = current_price]
           ELSE ctl' = [Return("find_next", "success", side)
                           EXCEPT !.lower = current_price,
                                  !.price = FindNextGridLevel(grid, current_price, side)]
    /\ UNCHANGED <<running, config, strategy, bot_thread, error_message, eng, recs, wk,
                   exch, starts, fills, faults, dbStatus>>

(* ---- BotManager.start ---- *)
\* a variant without the test of the running flag
StartBeginUnguarded(limit) ==
    /\ ctl.pc = "idle"
    /\ IF config = NoConfig
       THEN ctl' = Return("start", "error", "unconfigured") /\ UNCHANGED starts
       ELSE /\ starts < limit
            /\ starts' = starts + 1
            /\ ctl' = [Idle EXCEPT !.pc = "s_price", !.op = "start"]
    /\ UNCHANGED <<running, config, strategy, bot_thread, error_message, eng, recs, wk,
                   exch, fills, faults, dbStatus>>

\* the guards; the client is constructed
StartBegin(limit) ==
    /\ ctl.pc = "idle"
    /\ IF running
       THEN ctl' = Return("start", "error", "running") /\ UNCHANGED starts
       ELSE IF config = NoConfig
       THEN ctl' = Return("start", "error", "unconfigured") /\ UNCHANGED starts
       ELSE /\ starts < limit
            /\ starts' = starts + 1
            /\ ctl' = [Idle EXCEPT !.pc = "s_price", !.op = "start"]
    /\ UNCHANGED <<running, config, strategy, bot_thread, error_message, eng, recs, wk,
                   exch, fills, faults, dbStatus>>

\* a variant that raises the running flag as soon as the connection test passes
StartPriceFlagFirst(current_price) ==
    /\ ctl.pc = "s_price"
    /\ IF current_price = None
       THEN /\ ctl' = Return("start", "error", "connect")
            /\ UNCHANGED <<running, config, strategy, eng, recs, wk>>
       ELSE LET outside == current_price < config.grid_lower
                               \/ current_price > config.grid_upper
                grid_lower == IF outside
                              THEN RoundDiv(current_price * (100 - RangePercent), 100)
                              ELSE config.grid_lower
                grid_upper == IF outside
                              THEN RoundDiv(current_price * (100 + RangePercent), 100)
                              ELSE config.grid_upper
                kept == LiveEngines(eng, None, wk)
                e == Slot(kept, FreeEngine)
            IN  /\ running' = TRUE
                /\ config' = [config EXCEPT !.grid_lower = grid_lower,
                                            !.grid_upper = grid_upper]
                /\ Objects(e, Put(kept, e, NewEngine(config.grid_levels, grid_lower,
                                                     grid_upper)), recs, wk)
                /\ ctl' = [ctl EXCEPT !.pc = "s_init", !.lower = grid_lower,
                                       !.upper = grid_upper, !.price = current_price,
                                       !.why = IF outside THEN "adjusted" ELSE "none"]
    /\ UNCHANGED <<bot_thread, error_message, exch, starts, fills, faults, dbStatus>>

\* a variant that never adjusts the range
StartPriceConfiguredRange(current_price) ==
    /\ ctl.pc = "s_price"
    /\ IF current_price = None
       THEN /\ ctl' = Return("start", "error", "connect")
            /\ UNCHANGED <<config, strategy, eng, recs, wk>>
       ELSE LET kept == LiveEngines(eng, None, wk)
                e == Slot(kept, FreeEngine)
            IN  /\ UNCHANGED config
                /\ Objects(e, Put(kept, e, NewEngine(config.grid_levels, config.grid_lower,
                                                     config.grid_upper)), recs, wk)
                /\ ctl' = [ctl EXCEPT !.pc = "s_init", !.lower = config.grid_lower,
                                       !.upper = config.grid_upper,
                                       !.price = current_price]
    /\ UNCHANGED <<running, bot_thread, error_message, exch, starts, fills, faults,
                   dbStatus>>

\* the connection test, the auto-adjustment and the construction of the engine
StartPrice(current_price) ==
    /\ ctl.pc = "s_price"
    /\ IF current_price = None
       THEN /\ ctl' = Return("start", "error", "connect")
            /\ UNCHANGED <<config, strategy, eng, recs, wk>>
       ELSE LET outside == current_price < config.grid_lower
                               \/ current_price > config.grid_upper
                grid_lower == IF outside
                              THEN RoundDiv(current_price * (100 - RangePercent), 100)
                              ELSE config.grid_lower
                grid_upper == IF outside
                              THEN RoundDiv(current_price * (100 + RangePercent), 100)
                              ELSE config.grid_upper
                \* the engine self.strategy referred to goes unless a thread is in it
                kept == LiveEngines(eng, None, wk)
                e == Slot(kept, FreeEngine)
            IN  /\ config' = [config EXCEPT !.grid_lower = grid_lower,
                                            !.grid_upper = grid_upper]
                /\ Objects(e, Put(kept, e, NewEngine(config.grid_levels, grid_lower,
                                                     grid_upper)), recs, wk)
                /\ ctl' = [ctl EXCEPT !.pc = "s_init", !.lower = grid_lower,
                                       !.upper = grid_upper, !.price = current_price,
                                       !.why = IF outside THEN "adjusted" ELSE "none"]
    /\ UNCHANGED <<running, bot_thread, error_message, exch, starts, fills, faults,
                   dbStatus>>

\* a variant that gives up when a placement fails
StartInitAllOrNothing(current_price, cancelled, placed) ==
    /\ ctl.pc = "s_init"
    /\ IF current_price = None
       THEN /\ ctl' = Return("start", "error", "initialize")
            /\ UNCHANGED <<strategy, eng, recs, wk, exch, faults>>
       ELSE LET e == strategy
                seeded == Seeded(eng[e].grid_prices, current_price)
                st == PlaceInitial(eng[e].grid_prices, current_price, placed, 1,
                          [heap |-> recs, orders |-> eng[e].active_orders,
                           open |-> IF cancelled THEN {} ELSE exch])
            IN  /\ placed \subseteq seeded
                /\ faults' = faults + (IF cancelled THEN 0 ELSE 1)
                /\ faults' <= MaxFaults
                /\ Objects(strategy, [eng EXCEPT ![e].active_orders = st.orders],
                           st.heap, wk)
                /\ exch' = st.open
                /\ ctl' = IF placed = seeded THEN [ctl EXCEPT !.pc = "s_spawn"]
                          ELSE Return("start", "error", "initialize")
    /\ UNCHANGED <<running, config, bot_thread, error_message, starts, fills, dbStatus>>

\* strategy.initialize_grid(): price fetch, cancel-all, one placement per level
\* (the placements that fail are at most one per level and take nothing from
\* the budget of failing gateway calls)
StartInit(current_price, cancelled, placed) ==
    /\ ctl.pc = "s_init"
    /\ IF current_price = None
       THEN /\ ctl' = Return("start", "error", "initialize")
            /\ UNCHANGED <<strategy, eng, recs, wk, exch, faults>>
       ELSE LET e == strategy
                seeded == Seeded(eng[e].grid_prices, current_price)
                st == PlaceInitial(eng[e].grid_prices, current_price, placed, 1,
                          [heap |-> recs, orders |-> eng[e].active_orders,
                           open |-> IF cancelled THEN {} ELSE exch])
            IN  /\ placed \subseteq seeded
                /\ faults' = faults + (IF cancelled THEN 0 ELSE 1)
                /\ faults' <= MaxFaults
                /\ Objects(strategy, [eng EXCEPT ![e].active_orders = st.orders],
                           st.heap, wk)
                /\ exch' = st.open
                /\ ctl' = [ctl EXCEPT !.pc = "s_spawn"]
    /\ UNCHANGED <<running, config, bot_thread, error_message, starts, fills, dbStatus>>

NewThread == [NoThread EXCEPT !.pc = "loop"]

\* the flag, the thread and the status row
StartSpawn ==
    /\ ctl.pc = "s_spawn"
    /\ running' = TRUE
    /\ error_message' = FALSE
    /\ wk' = Put(wk, Slot(wk, NoThread), NewThread)
    /\ bot_thread' = Slot(wk, NoThread)
    /\ dbStatus' = StatusRow(TRUE)
    /\ ctl' = [ctl EXCEPT !.pc = "return", !.status = "success"]
    /\ UNCHANGED <<config, strategy, eng, recs, exch, starts, fills, faults>>

(* ---- BotManager.stop ---- *)
\* a variant that writes the status row before it tests the flag
StopBeginRecorded ==
    /\ ctl.pc = "idle"
    /\ dbStatus' = StatusRow(FALSE)
    /\ IF ~running
       THEN /\ ctl' = Return("stop", "error", "stopped")
            /\ UNCHANGED running
       ELSE /\ running' = FALSE
            /\ ctl' = [Idle EXCEPT !.pc = "t_shutdown", !.op = "stop"]
    /\ UNCHANGED <<config, strategy, bot_thread, error_message, eng, recs, wk, exch,
                   starts, fills, faults>>

\* the guard, and the flag
StopBegin ==
    /\ ctl.pc = "idle"
    /\ IF ~running
       THEN /\ ctl' = Return("stop", "error", "stopped")
            /\ UNCHANGED running
       ELSE /\ running' = FALSE
            /\ ctl' = [Idle EXCEPT !.pc = "t_shutdown", !.op = "stop"]
    /\ UNCHANGED <<config, strategy, bot_thread, error_message, eng, recs, wk, exch,
                   starts, fills, faults, dbStatus>>

\* GridTradingStrategy.stop: cancel_all_orders, active_orders.clear()
StopShutdown(cancelled) ==
    /\ ctl.pc = "t_shutdown"
    /\ IF strategy # None
       THEN /\ exch' = IF cancelled THEN {} ELSE exch
            /\ Objects(strategy, [eng EXCEPT ![strategy].active_orders = <<>>], recs, wk)
            /\ faults' = faults + (IF cancelled THEN 0 ELSE 1)
            /\ faults' <= MaxFaults
       ELSE UNCHANGED <<strategy, eng, recs, wk, exch, faults>>
    /\ ctl' = [ctl EXCEPT !.pc = "t_join",
                           !.why = IF cancelled /\ strategy # None THEN "cancelled"
                                   ELSE "none"]
    /\ UNCHANGED <<running, config, bot_thread, error_message, starts, fills, dbStatus>>

\* a variant of the engine's stop that gives up when there is nothing to clear
EngineStopNonEmpty(cancelled) ==
    /\ ctl.pc = "idle"
    /\ strategy # None
    /\ faults' = faults + (IF cancelled THEN 0 ELSE 1)
    /\ faults' <= MaxFaults
    /\ exch' = IF cancelled THEN {} ELSE exch
    /\ IF eng[strategy].active_orders = <<>>
       THEN /\ ctl' = Return("engine_stop", "error", "empty")
            /\ Objects(strategy, [eng EXCEPT ![strategy].grid_levels = 0], recs, wk)
       ELSE /\ ctl' = Return("engine_stop", "success", "cleared")
            /\ Objects(strategy, [eng EXCEPT ![strategy].active_orders = <<>>], recs, wk)
    /\ UNCHANGED <<running, config, bot_thread, error_message, starts, fills, dbStatus>>

\* GridTradingStrategy.stop called on the engine by itself: cancel_all_orders,
\* whose result is not looked at, and active_orders.clear(); the caller is
\* told in why whether there were order records
EngineStop(cancelled) ==
    /\ ctl.pc = "idle"
    /\ strategy # None
    /\ faults' = faults + (IF cancelled THEN 0 ELSE 1)
    /\ faults' <= MaxFaults
    /\ exch' = IF cancelled THEN {} ELSE exch
    /\ ctl' = Return("engine_stop", "success",
                     IF eng[strategy].active_orders = <<>> THEN "empty" ELSE "cleared")
    /\ Objects(strategy, [eng EXCEPT ![strategy].active_orders = <<>>], recs, wk)
    /\ UNCHANGED <<running, config, bot_thread, error_message, starts, fills, dbStatus>>

\* a variant whose join has no timeout: it returns when the thread has ended
StopJoinUntilEnded ==
    /\ ctl.pc = "t_join"
    /\ \A w \in 1..Len(wk) : w = bot_thread => wk[w] = NoThread
    /\ dbStatus' = [is_running |-> FALSE, parity |-> 1 - dbStatus.parity]
    /\ ctl' = [ctl EXCEPT !.pc = "return", !.status = "success"]
    /\ UNCHANGED <<running, config, strategy, bot_thread, error_message, eng, recs, wk,
                   exch, starts, fills, faults>>

\* bot_thread.join(timeout=5) returns when the thread has ended or when the
\* timeout expires, whichever comes first; then the status row
StopJoin ==
    /\ ctl.pc = "t_join"
    /\ dbStatus' = StatusRow(FALSE)
    /\ ctl' = [ctl EXCEPT !.pc = "return", !.status = "success"]
    /\ UNCHANGED <<running, config, strategy, bot_thread, error_message, eng, recs, wk,
                   exch, starts, fills, faults>>

(* ---- src/api_server.py: the handler hands the result to the caller ---- *)
Returned ==
    /\ ctl.pc = "return"
    /\ ctl' = Idle
    /\ UNCHANGED <<running, config, strategy, bot_thread, error_message, eng, recs, wk,
                   exch, starts, fills, faults, dbStatus>>

(* ---- GridTradingStrategy.check_and_rebalance ---- *)
\* a variant that does not look at the open orders
IsFilledAnyActive(heap, r, open_order_ids) ==
    heap[r].status = "active"

\* a variant that finds filled Buy orders only
IsFilledBuy(heap, r, open_order_ids) ==
    /\ heap[r].id \notin open_order_ids
    /\ heap[r].status = "active"
    /\ heap[r].side = "Buy"

\* the condition of the loop that finds the filled orders
IsFilled(heap, r, open_order_ids) ==
    heap[r].id \notin open_order_ids /\ heap[r].status = "active"

\* the loop skips the items that do not satisfy it
RECURSIVE SkipUnfilled(_, _, _)
SkipUnfilled(items, heap, open_order_ids) ==
    IF items = <<>> \/ IsFilled(heap, Head(items), open_order_ids) THEN items
    ELSE SkipUnfilled(Tail(items), heap, open_order_ids)

(* ---- BotManager._run_bot ---- *)
\* while self.running
LoopTest(w, limit) ==
    /\ wk[w].pc = "loop"
    /\ IF running
       THEN /\ wk[w].iteration < limit
            /\ wk' = [wk EXCEPT ![w].pc = "cycle"]
       ELSE wk' = Trim([wk EXCEPT ![w] = NoThread], NoThread)
    /\ UNCHANGED <<running, config, strategy, bot_thread, error_message, ctl, eng, recs,
                   exch, starts, fills, faults, dbStatus>>

\* the loop test of a thread that runs on without end: iteration is read
\* only in iteration % 6, and here the count begins again at limit, so that
\* with limit below 6 the status row of every 6th cycle is not written
LoopTestAgain(w, limit) ==
    /\ wk[w].pc = "loop"
    /\ running
    /\ wk[w].iteration = limit
    /\ wk' = [wk EXCEPT ![w].iteration = 0, ![w].pc = "cycle"]
    /\ UNCHANGED <<running, config, strategy, bot_thread, error_message, ctl, eng, recs,
                   exch, starts, fills, faults, dbStatus>>

\* iteration += 1; check_and_rebalance on self.strategy begins: get_open_orders
\* (a failed fetch is returned as the empty list)
FetchOpenOrders(w, fetched) ==
    /\ wk[w].pc = "cycle"
    /\ faults' = faults + (IF fetched THEN 0 ELSE 1)
    /\ faults' <= MaxFaults
    /\ wk' = [wk EXCEPT ![w].iteration = @ + 1,
                        ![w].engine = strategy,
                        ![w].open_order_ids = IF fetched THEN exch ELSE {},
                        ![w].pc = "items"]
    /\ UNCHANGED <<running, config, strategy, bot_thread, error_message, ctl, eng, recs,
                   exch, starts, fills, dbStatus>>

\* list(self.active_orders.items()), up to the first filled order
ListItems(w) ==
    /\ wk[w].pc = "items"
    /\ LET items == SkipUnfilled(eng[wk[w].engine].active_orders, recs,
                                 wk[w].open_order_ids)
       IN  wk' = [wk EXCEPT ![w].items = items,
                            ![w].pc = IF items = <<>> THEN "rebalance" ELSE "mark"]
    /\ UNCHANGED <<running, config, strategy, bot_thread, error_message, ctl, eng, recs,
                   exch, starts, fills, faults, dbStatus>>

\* a variant that records the trade and leaves the order active
MarkFilledStillActive(w) ==
    /\ wk[w].pc = "mark"
    /\ LET r == Head(wk[w].items)
           heap == [recs EXCEPT ![r].updates = @ + 1,
                                ![r].trades = @ + 1]
           items == SkipUnfilled(Tail(wk[w].items), heap, wk[w].open_order_ids)
       IN  Objects(strategy, eng, heap,
                   [wk EXCEPT ![w].filled_orders = Append(@, r),
                              ![w].items = items,
                              ![w].pc = IF items = <<>> THEN "rebalance" ELSE "mark"])
    /\ UNCHANGED <<running, config, bot_thread, error_message, ctl, exch, starts, fills,
                   faults, dbStatus>>

\* the body of the loop: the order is filled; update_order_status and
\* add_trade; then up to the next filled order
MarkFilled(w) ==
    /\ wk[w].pc = "mark"
    /\ LET r == Head(wk[w].items)
           heap == [recs EXCEPT ![r].status = "filled",
                                ![r].updates = @ + 1,
                                ![r].trades = @ + 1]
           items == SkipUnfilled(Tail(wk[w].items), heap, wk[w].open_order_ids)
       IN  Objects(strategy, eng, heap,
                   [wk EXCEPT ![w].filled_orders = Append(@, r),
                              ![w].items = items,
                              ![w].pc = IF items = <<>> THEN "rebalance" ELSE "mark"])
    /\ UNCHANGED <<running, config, bot_thread, error_message, ctl, exch, starts, fills,
                   faults, dbStatus>>

\* a variant in which a failed placement puts the filled order back to
\* active, so that the next pass comes to it again
HandleFilledOrderRetried(w, placed, stamp) ==
    /\ wk[w].pc = "rebalance"
    /\ wk[w].filled_orders # <<>>
    /\ LET e == wk[w].engine
           r == Head(wk[w].filled_orders)
           filled_price == recs[r].price
           filled_side == recs[r].side
           next_price == FindNextGridLevel(eng[e].grid_prices, filled_price, filled_side)
           new_side == IF filled_side = "Buy" THEN "Sell" ELSE "Buy"
           order_link_id == LinkId(new_side, next_price, stamp)
           call == [filled_side |-> filled_side, filled_price |-> filled_price,
                    side |-> IF next_price = None THEN "none" ELSE new_side,
                    price |-> next_price, ok |-> placed /\ next_price # None]
           w2 == [wk EXCEPT ![w].filled_orders = Tail(@), ![w].call = call]
           n == Slot(recs, FreeRecord)
       IN  IF next_price = None
           THEN /\ placed
                /\ Objects(strategy, eng, recs, w2)
                /\ UNCHANGED <<exch, faults>>
           ELSE IF placed
           THEN /\ exch' = exch \cup {order_link_id}
                /\ Objects(strategy,
                           [eng EXCEPT ![e].active_orders =
                                DictPut(@, recs, order_link_id, n)],
                           Put(recs, n, NewRecord(order_link_id, next_price, new_side)),
                           w2)
                /\ UNCHANGED faults
           ELSE /\ faults < MaxFaults
                /\ faults' = faults + 1
                /\ Objects(strategy, eng, [recs EXCEPT ![r].status = "active"], w2)
                /\ UNCHANGED exch
    /\ UNCHANGED <<running, config, bot_thread, error_message, ctl, starts, fills,
                   dbStatus>>

\* _handle_filled_order on the next filled order
HandleFilledOrder(w, placed, stamp) ==
    /\ wk[w].pc = "rebalance"
    /\ wk[w].filled_orders # <<>>
    /\ LET e == wk[w].engine
           r == Head(wk[w].filled_orders)
           filled_price == recs[r].price
           filled_side == recs[r].side
           next_price == FindNextGridLevel(eng[e].grid_prices, filled_price, filled_side)
           new_side == IF filled_side = "Buy" THEN "Sell" ELSE "Buy"
           order_link_id == LinkId(new_side, next_price, stamp)
           call == [filled_side |-> filled_side, filled_price |-> filled_price,
                    side |-> IF next_price = None THEN "none" ELSE new_side,
                    price |-> next_price, ok |-> placed /\ next_price # None]
           w2 == [wk EXCEPT ![w].filled_orders = Tail(@), ![w].call = call]
           n == Slot(recs, FreeRecord)
       IN  IF next_price = None
           THEN /\ placed
                /\ Objects(strategy, eng, recs, w2)
                /\ UNCHANGED <<exch, faults>>
           ELSE IF placed
           THEN /\ exch' = exch \cup {order_link_id}
                /\ Objects(strategy,
                           [eng EXCEPT ![e].active_orders =
                                DictPut(@, recs, order_link_id, n)],
                           Put(recs, n, NewRecord(order_link_id, next_price, new_side)),
                           w2)
                /\ UNCHANGED faults
           ELSE /\ faults < MaxFaults
                /\ faults' = faults + 1
                /\ Objects(strategy, eng, recs, w2)
                /\ UNCHANGED exch
    /\ UNCHANGED <<running, config, bot_thread, error_message, ctl, starts, fills,
                   dbStatus>>

\* every 6th iteration: get_status, the price, the status row; then the sleep
PeriodicStatus(w, priced) ==
    /\ wk[w].pc = "rebalance"
    /\ wk[w].filled_orders = <<>>
    /\ IF wk[w].iteration % StatusEvery = 0
       THEN IF priced
            THEN dbStatus' = StatusRow(TRUE)
            ELSE UNCHANGED dbStatus
       ELSE priced /\ UNCHANGED dbStatus
    /\ Objects(strategy, eng, recs,
               [wk EXCEPT ![w].pc = "loop", ![w].call = NoCall, ![w].engine = None,
                          ![w].open_order_ids = {}])
    /\ UNCHANGED <<running, config, bot_thread, error_message, ctl, exch, starts, fills,
                   faults>>

\* a variant in which the exception leaves the loop: the thread ends
CycleRaisesFatal(w) ==
    /\ wk[w].pc \in {"items", "mark", "rebalance"}
    /\ faults < MaxFaults
    /\ faults' = faults + 1
    /\ error_message' = TRUE
    /\ Objects(strategy, eng, recs, [wk EXCEPT ![w] = NoThread])
    /\ UNCHANGED <<running, config, bot_thread, ctl, exch, starts, fills, dbStatus>>

\* a variant in which a cycle that raised is not counted
CycleRaisesUncounted(w) ==
    /\ wk[w].pc \in {"items", "mark", "rebalance"}
    /\ faults < MaxFaults
    /\ faults' = faults + 1
    /\ error_message' = TRUE
    /\ Objects(strategy, eng, recs,
               [wk EXCEPT ![w].pc = "loop", ![w].items = <<>>,
                          ![w].filled_orders = <<>>, ![w].call = NoCall,
                          ![w].engine = None, ![w].open_order_ids = {},
                          ![w].iteration = @ - 1])
    /\ UNCHANGED <<running, config, bot_thread, ctl, exch, starts, fills, dbStatus>>

\* an exception inside the try block of a cycle: error_message is set, and
\* after the sleep the thread is back at the loop test
CycleRaises(w) ==
    /\ wk[w].pc \in {"items", "mark", "rebalance"}
    /\ faults < MaxFaults
    /\ faults' = faults + 1
    /\ error_message' = TRUE
    /\ Objects(strategy, eng, recs,
               [wk EXCEPT ![w].pc = "loop", ![w].items = <<>>,
                          ![w].filled_orders = <<>>, ![w].call = NoCall,
                          ![w].engine = None, ![w].open_order_ids = {}])
    /\ UNCHANGED <<running, config, bot_thread, ctl, exch, starts, fills, dbStatus>>

(* ---- the exchange ---- *)
\* a resting order is matched
Fill(id) ==
    /\ id \in exch
    /\ fills < MaxFills
    /\ exch' = exch \ {id}
    /\ fills' = fills + 1
    /\ UNCHANGED <<running, config, strategy, bot_thread, error_message, ctl, eng, recs,
                   wk, starts, faults, dbStatus>>

Threads == {w \in 1..Len(wk) : wk[w] # NoThread}

(* ---- the bot, started at most MaxStarts times ---- *)
Next ==
    \/ \E c \in RawConfigs : Configure(c)
    \/ StartBegin(MaxStarts)
    \/ \E p \in Ticker : StartPrice(p)
    \/ \E p \in Ticker, cancelled \in BOOLEAN, placed \in SUBSET (1..3) :
           StartInit(p, cancelled, placed)
    \/ StartSpawn
    \/ StopBegin
    \/ \E cancelled \in BOOLEAN : StopShutdown(cancelled)
    \/ StopJoin
    \/ Returned
    \/ \E w \in Threads : LoopTest(w, MaxIterations)
    \/ \E w \in Threads, fetched \in BOOLEAN : FetchOpenOrders(w, fetched)
    \/ \E w \in Threads : ListItems(w)
    \/ \E w \in Threads : MarkFilled(w)
    \/ \E w \in Threads, placed \in BOOLEAN, stamp \in 1..MaxClock :
           HandleFilledOrder(w, placed, stamp)
    \/ \E w \in Threads, priced \in BOOLEAN : PeriodicStatus(w, priced)
    \/ \E id \in exch : Fill(id)

Spec == Init /\ [][Next]_vars

(* ---- the engine of a bot that is started and left running: the start ---- *)
(* ---- succeeds, orders are matched between two passes, and the clock  ---- *)
(* ---- advances by one from a pass to the next                         ---- *)
\* every polling thread is between two passes
Asleep == \A w \in Threads : wk[w].pc \in {"loop", "cycle"}

NextEngine ==
    \/ StartBegin(MaxStarts)
    \/ \E p \in Prices : StartPrice(p)
    \/ \E p \in Prices : StartInit(p, TRUE, Seeded(eng[strategy].grid_prices, p))
    \/ StartSpawn
    \/ Returned
    \/ \E w \in Threads : LoopTest(w, MaxIterations)
    \/ \E w \in Threads, fetched \in BOOLEAN : FetchOpenOrders(w, fetched)
    \/ \E w \in Threads : ListItems(w)
    \/ \E w \in Threads : MarkFilled(w)
    \/ \E w \in Threads, placed \in BOOLEAN :
           HandleFilledOrder(w, placed, wk[w].iteration)
    \/ \E w \in Threads : PeriodicStatus(w, TRUE)
    \/ \E id \in exch : Asleep /\ Fill(id)

SpecEngine == Init /\ [][NextEngine]_vars

(* ---- the engine when every placement succeeds; the fetch can fail ---- *)
NextPass ==
    \/ StartBegin(MaxStarts)
    \/ \E p \in Prices : StartPrice(p)
    \/ \E p \in Prices : StartInit(p, TRUE, Seeded(eng[strategy].grid_prices, p))
    \/ StartSpawn
    \/ Returned
    \/ \E w \in Threads : LoopTest(w, MaxIterations)
    \/ \E w \in Threads, fetched \in BOOLEAN : FetchOpenOrders(w, fetched)
    \/ \E w \in Threads : ListItems(w)
    \/ \E w \in Threads : MarkFilled(w)
    \/ \E w \in Threads : HandleFilledOrder(w, TRUE, wk[w].iteration)
    \/ \E w \in Threads : PeriodicStatus(w, TRUE)
    \/ \E id \in exch : Asleep /\ Fill(id)

SpecPass == Init /\ [][NextPass]_vars

(* ---- the polling loop of a running bot under fair scheduling: every  ---- *)
(* ---- fetch succeeds, and an order is matched only while the thread   ---- *)
(* ---- has a pass left within MaxIterations                            ---- *)
\* one step of polling thread w
Poll(w) ==
    \/ LoopTest(w, MaxIterations)
    \/ FetchOpenOrders(w, TRUE)
    \/ ListItems(w)
    \/ MarkFilled(w)
    \/ \E placed \in BOOLEAN : HandleFilledOrder(w, placed, wk[w].iteration)
    \/ PeriodicStatus(w, TRUE)

\* a polling thread has a pass ahead of it
PassLeft == \E w \in Threads : wk[w].iteration < MaxIterations

NextPoll ==
    \/ StartBegin(MaxStarts)
    \/ \E p \in Prices : StartPrice(p)
    \/ \E p \in Prices : StartInit(p, TRUE, Seeded(eng[strategy].grid_prices, p))
    \/ StartSpawn
    \/ Returned
    \/ \E w \in Threads : Poll(w)
    \/ \E id \in exch : PassLeft /\ Fill(id)

\* the thread start() creates is scheduled, its sleeps and gateway calls return
SpecPoll ==
    /\ Init
    /\ [][NextPoll]_vars
    /\ \A w \in 1..MaxStarts : WF_vars(w \in Threads /\ Poll(w))

(* ---- start with every pattern of failing placements; a quiet exchange ---- *)
NextInit ==
    \/ StartBegin(MaxStarts)
    \/ \E p \in Ticker : StartPrice(p)
    \/ \E p \in Ticker, placed \in SUBSET (1..3) : StartInit(p, TRUE, placed)
    \/ StartSpawn
    \/ Returned
    \/ \E w \in Threads : LoopTest(w, MaxIterations)
    \/ \E w \in Threads : FetchOpenOrders(w, TRUE)
    \/ \E w \in Threads : ListItems(w)
    \/ \E w \in Threads : PeriodicStatus(w, TRUE)

SpecInit == Init /\ [][NextInit]_vars

(* ---- the engine constructed with arguments of every kind ---- *)
\* the bounds an engine is constructed with, in hundredths
GridBounds == {10000, 10001, 20000}

NextGrid ==
    \/ \E levels \in 0..MaxLevels, lower \in GridBounds, upper \in GridBounds :
           Construct(levels, lower, upper)
    \/ Returned

SpecGrid == Init /\ [][NextGrid]_vars

(* ---- the engine while the exchange does not answer get_open_orders: ---- *)
(* ---- every fetch of a pass fails                                    ---- *)
NextOutage ==
    \/ StartBegin(MaxStarts)
    \/ \E p \in Prices : StartPrice(p)
    \/ \E p \in Prices : StartInit(p, TRUE, Seeded(eng[strategy].grid_prices, p))
    \/ StartSpawn
    \/ Returned
    \/ \E w \in Threads : LoopTest(w, MaxIterations)
    \/ \E w \in Threads : FetchOpenOrders(w, FALSE)
    \/ \E w \in Threads : ListItems(w)
    \/ \E w \in Threads : MarkFilled(w)
    \/ \E w \in Threads, placed \in BOOLEAN :
           HandleFilledOrder(w, placed, wk[w].iteration)
    \/ \E w \in Threads : PeriodicStatus(w, TRUE)
    \/ \E id \in exch : Asleep /\ Fill(id)

SpecOutage == Init /\ [][NextOutage]_vars

(* ---- start at prices from one cent up ---- *)
\* lastPrice as the ticker gives it: no answer, 0.01, 0.09, and prices inside
\* and outside the configured range
CentTicker == {None, 1, 9, 14000, 23000}

NextRange ==
    \/ StartBegin(MaxStarts)
    \/ \E p \in CentTicker : StartPrice(p)
    \/ \E p \in CentTicker, placed \in SUBSET (1..3) : StartInit(p, TRUE, placed)
    \/ StartSpawn
    \/ Returned

SpecRange == Init /\ [][NextRange]_vars

(* ---- the engine's stop called on engines with and without orders ---- *)
\* the engine is that of a started bot, with the orders that could be placed
NextShutdown ==
    \/ StartBegin(MaxStarts)
    \/ \E p \in Prices : StartPrice(p)
    \/ \E p \in Prices, placed \in SUBSET (1..3) : StartInit(p, TRUE, placed)
    \/ StartSpawn
    \/ \E cancelled \in BOOLEAN : EngineStop(cancelled)
    \/ Returned

SpecShutdown == Init /\ [][NextShutdown]_vars

(* ---- the next level asked for prices on and off the grid ---- *)
\* the prices asked about: below, between (at equal and at unequal distance
\* from two levels of the grid 100, 150, 200), on and above the grid
ProbePrices == {9000, 10000, 12500, 13000, 15000, 17500, 25000}

NextLevel ==
    \/ \E levels \in 0..MaxLevels, lower \in GridBounds, upper \in GridBounds :
           Construct(levels, lower, upper)
    \/ \E price \in ProbePrices, side \in {"Buy", "Sell"} : FindNext(price, side)
    \/ Returned

SpecLevel == Init /\ [][NextLevel]_vars

(* ---- the life cycle: configure, start, stop, start again; the gateway ---- *)
(* ---- answers every call but the ticker, and no order is matched      ---- *)
QuietTicker == {None, 14000, 23000}

NextLife ==
    \/ \E c \in RawConfigs : Configure(c)
    \/ StartBegin(MaxRestarts)
    \/ \E p \in QuietTicker : StartPrice(p)
    \/ \E p \in QuietTicker : StartInit(p, TRUE, Seeded(eng[strategy].grid_prices, p))
    \/ StartSpawn
    \/ StopBegin
    \/ StopShutdown(TRUE)
    \/ StopJoin
    \/ Returned
    \/ \E w \in Threads : LoopTest(w, MaxIterations)
    \/ \E w \in Threads : FetchOpenOrders(w, TRUE)
    \/ \E w \in Threads : ListItems(w)
    \/ \E w \in Threads : MarkFilled(w)
    \/ \E w \in Threads : HandleFilledOrder(w, TRUE, 1)
    \/ \E w \in Threads : PeriodicStatus(w, TRUE)

SpecLife == Init /\ [][NextLife]_vars

(* ---- one run long enough for the periodic status; a quiet exchange ---- *)
NextLoop ==
    \/ \E c \in RawConfigs : Configure(c)
    \/ StartBegin(MaxStarts)
    \/ \E p \in QuietTicker : StartPrice(p)
    \/ \E p \in QuietTicker : StartInit(p, TRUE, Seeded(eng[strategy].grid_prices, p))
    \/ StartSpawn
    \/ StopBegin
    \/ StopShutdown(TRUE)
    \/ StopJoin
    \/ Returned
    \/ \E w \in Threads : LoopTest(w, LongRun)
    \/ \E w \in Threads : FetchOpenOrders(w, TRUE)
    \/ \E w \in Threads : ListItems(w)
    \/ \E w \in Threads, priced \in BOOLEAN : PeriodicStatus(w, priced)

SpecLoop == Init /\ [][NextLoop]_vars

(* ---- stop under fair scheduling of the control thread alone: the ---- *)
(* ---- polling threads may be scheduled or not; a quiet exchange   ---- *)
\* one step of stop() after its guard
Stopping ==
    \/ StopShutdown(TRUE)
    \/ StopJoin

NextStop ==
    \/ StartBegin(MaxStarts)
    \/ \E p \in QuietTicker : StartPrice(p)
    \/ \E p \in QuietTicker : StartInit(p, TRUE, Seeded(eng[strategy].grid_prices, p))
    \/ StartSpawn
    \/ StopBegin
    \/ Stopping
    \/ Returned
    \/ \E w \in Threads : LoopTest(w, MaxIterations)
    \/ \E w \in Threads : FetchOpenOrders(w, TRUE)
    \/ \E w \in Threads : ListItems(w)
    \/ \E w \in Threads : PeriodicStatus(w, TRUE)

\* cancel_all_orders returns, and join(timeout=5) returns within its timeout
SpecStop == Init /\ [][NextStop]_vars /\ WF_vars(Stopping)

(* ---- stop and start again under fair scheduling of the polling ---- *)
(* ---- threads, which run for as long as the flag lets them       ---- *)
\* one step of polling thread w on a quiet exchange
Turn(w) ==
    \/ LoopTest(w, MaxIterations)
    \/ LoopTestAgain(w, MaxIterations)
    \/ FetchOpenOrders(w, TRUE)
    \/ ListItems(w)
    \/ MarkFilled(w)
    \/ HandleFilledOrder(w, TRUE, 1)
    \/ PeriodicStatus(w, TRUE)

NextRerun ==
    \/ StartBegin(MaxRestarts)
    \/ StartPrice(15000)
    \/ StartInit(15000, TRUE, Seeded(eng[strategy].grid_prices, 15000))
    \/ StartSpawn
    \/ StopBegin
    \/ Stopping
    \/ Returned
    \/ \E w \in Threads : Turn(w)

\* every polling thread is scheduled, its sleeps and gateway calls return
SpecRerun ==
    /\ Init
    /\ [][NextRerun]_vars
    /\ \A w \in 1..MaxRestarts : WF_vars(w \in Threads /\ Turn(w))

(* ---- a bot left running up to its periodic status: a cycle can raise, ---- *)
(* ---- and the ticker can fail to give the price                       ---- *)
NextStatus ==
    \/ StartBegin(MaxStarts)
    \/ StartPrice(15000)
    \/ StartInit(15000, TRUE, Seeded(eng[strategy].grid_prices, 15000))
    \/ StartSpawn
    \/ Returned
    \/ \E w \in Threads : LoopTest(w, LongRun)
    \/ \E w \in Threads : FetchOpenOrders(w, TRUE)
    \/ \E w \in Threads : ListItems(w)
    \/ \E w \in Threads, priced \in BOOLEAN : PeriodicStatus(w, priced)
    \/ \E w \in Threads : CycleRaises(w)

SpecStatus == Init /\ [][NextStatus]_vars

(* ---- stop and start again while orders are matched: the passes of ---- *)
(* ---- the polling threads interleave step by step                 ---- *)
NextRace ==
    \/ StartBegin(MaxRestarts)
    \/ StartPrice(15000)
    \/ StartInit(15000, TRUE, Seeded(eng[strategy].grid_prices, 15000))
    \/ StartSpawn
    \/ StopBegin
    \/ Stopping
    \/ Returned
    \/ \E w \in Threads : LoopTest(w, MaxIterations)
    \/ \E w \in Threads : FetchOpenOrders(w, TRUE)
    \/ \E w \in Threads : ListItems(w)
    \/ \E w \in Threads : MarkFilled(w)
    \/ \E w \in Threads : HandleFilledOrder(w, TRUE, 1)
    \/ \E w \in Threads : PeriodicStatus(w, TRUE)
    \/ \E id \in exch : Fill(id)

SpecRace == Init /\ [][NextRace]_vars

(* ---- configure with every combination of defects, before and during a run ---- *)
NextConfigure ==
    \/ \E c \in AllRawConfigs : Configure(c)
    \/ StartBegin(MaxStarts)
    \/ \E p \in QuietTicker : StartPrice(p)
    \/ \E p \in QuietTicker : StartInit(p, TRUE, Seeded(eng[strategy].grid_prices, p))
    \/ StartSpawn
    \/ Returned
    \/ \E w \in Threads : LoopTest(w, MaxIterations)
    \/ \E w \in Threads : FetchOpenOrders(w, TRUE)
    \/ \E w \in Threads : ListItems(w)
    \/ \E w \in Threads : PeriodicStatus(w, TRUE)

SpecConfigure == Init /\ [][NextConfigure]_vars

(* ---- start called again and again, never stop; a quiet exchange.  The ---- *)
(* ---- handlers of src/api_server.py are coroutines that call start    ---- *)
(* ---- without awaiting, so a call runs to its return before the next  ---- *)
(* ---- request is served: concurrent requests become successive calls  ---- *)
NextCalls ==
    \/ StartBegin(MaxRestarts)
    \/ \E p \in QuietTicker : StartPrice(p)
    \/ \E p \in QuietTicker : StartInit(p, TRUE, Seeded(eng[strategy].grid_prices, p))
    \/ StartSpawn
    \/ Returned
    \/ \E w \in Threads : LoopTest(w, MaxIterations)
    \/ \E w \in Threads : FetchOpenOrders(w, TRUE)
    \/ \E w \in Threads : ListItems(w)
    \/ \E w \in Threads : PeriodicStatus(w, TRUE)

SpecCalls == Init /\ [][NextCalls]_vars

(* ---- one run whose cycles can raise; a quiet exchange ---- *)
NextCycle ==
    \/ StartBegin(MaxStarts)
    \/ \E p \in QuietTicker : StartPrice(p)
    \/ \E p \in QuietTicker : StartInit(p, TRUE, Seeded(eng[strategy].grid_prices, p))
    \/ StartSpawn
    \/ StopBegin
    \/ StopShutdown(TRUE)
    \/ StopJoin
    \/ Returned
    \/ \E w \in Threads : LoopTest(w, MaxIterations)
    \/ \E w \in Threads : FetchOpenOrders(w, TRUE)
    \/ \E w \in Threads : ListItems(w)
    \/ \E w \in Threads : PeriodicStatus(w, TRUE)
    \/ \E w \in Threads : CycleRaises(w)

SpecCycle == Init /\ [][NextCycle]_vars

(* ---- reading the state ---- *)
\* the order records of engine e, as heap indices
Orders(e) == Range(eng[e].active_orders)

\* the order records in state Active
ActiveOrders(e) == {r \in Orders(e) : recs[r].status = "active"}

\* the engines that exist
Engines == {e \in 1..Len(eng) : eng[e] # FreeEngine}

\* the position of a price in a grid whose levels are distinct
LevelOf(grid, price) == CHOOSE k \in 1..Len(grid) : grid[k] = price

\* thread w has just run _handle_filled_order
Handled(w) ==
    /\ w \in Threads
    /\ wk[w].pc = "rebalance"
    /\ w <= Len(wk')
    /\ Len(wk'[w].filled_orders) < Len(wk[w].filled_orders)

(* ---- C1 ---- *)
\* C1: in every reachable state of an engine, no two order records in state
\* Active have the same price and side.
C1_OneActivePerPriceAndSide ==
    \A e \in Engines : \A q, r \in ActiveOrders(e) :
        (recs[q].price = recs[r].price /\ recs[q].side = recs[r].side) => q = r

(* ---- C2 ---- *)
\* C2: a reconcile pass moves to Filled exactly the Active records of its
\* engine whose id is absent from the open-order set it fetched at its start,
\* with one order-status update and one trade record for each; every Active
\* record whose id is in that set is still Active when the marking ends.
C2_PassMarksExactlyTheAbsent ==
    [][\A w \in Threads :
        LET e == wk[w].engine
            open == wk[w].open_order_ids
        IN  wk[w].pc \in {"items", "mark"} =>
              /\ \A r \in Orders(e) :
                    (recs[r].status = "active" /\ recs'[r].status # "active") =>
                        /\ recs[r].id \notin open
                        /\ recs'[r].status = "filled"
                        /\ recs'[r].updates = recs[r].updates + 1
                        /\ recs'[r].trades = recs[r].trades + 1
                        /\ r \in Range(wk'[w].filled_orders)
              /\ \A r \in Orders(e) :
                    (recs[r].status = "active" /\ recs[r].id \in open) =>
                        recs'[r] = recs[r]
              /\ wk'[w].pc = "rebalance" =>
                    /\ \A r \in Orders(e) :
                          recs'[r].status = "active" => recs'[r].id \in open
                    /\ \A r \in Range(wk'[w].filled_orders) :
                          /\ r \in Orders(e)
                          /\ recs'[r].status = "filled"
                          /\ recs'[r].id \notin open
                          /\ recs'[r].updates = 1
                          /\ recs'[r].trades = 1
    ]_vars

\* a pass has marked one record Filled and left Active one that is still open
C2_Witness ==
    \E w \in Threads :
        /\ wk[w].pc = "rebalance"
        /\ wk[w].filled_orders # <<>>
        /\ \E r \in Orders(wk[w].engine) :
              recs[r].status = "active" /\ recs[r].id \in wk[w].open_order_ids

(* ---- C3 ---- *)
\* C3: for a Buy filled at grid index i below the topmost level the engine
\* places exactly one replacement, a Sell at index i+1; for a Sell filled at
\* index i above the bottommost level, exactly one Buy at index i-1. On the
\* grid (100, 125, 150, 175, 200) a Buy filled at 125 gives a Sell at 150.
C3_ReplacementAtAdjacentLevel ==
    [][\A w \in Threads : Handled(w) =>
        LET e == wk[w].engine
            grid == eng[e].grid_prices
            r == Head(wk[w].filled_orders)
            i == LevelOf(grid, recs[r].price)
            call == wk'[w].call
            placed == exch' \ exch
        IN  /\ FindNextGridLevel(<<10000, 12500, 15000, 17500, 20000>>, 12500, "Buy")
                   = 15000
            /\ (recs[r].side = "Buy" /\ i < Len(grid)) =>
                   call.side = "Sell" /\ call.price = grid[i + 1]
            /\ (recs[r].side = "Sell" /\ i > 1) =>
                   call.side = "Buy" /\ call.price = grid[i - 1]
            /\ Cardinality(placed) <= 1
            /\ \A id \in placed : id[1] = call.side /\ id[2] = call.price
            /\ call.ok =>
                   \E q \in ActiveOrders(e)' :
                       /\ recs'[q].id \in exch'
                       /\ recs'[q].side = call.side
                       /\ recs'[q].price = call.price
    ]_vars

\* a Buy filled below the topmost level has been replaced by a Sell
C3_Witness ==
    \E w \in Threads :
        /\ wk[w].call.filled_side = "Buy"
        /\ wk[w].call.side = "Sell"
        /\ wk[w].call.price > wk[w].call.filled_price
        /\ wk[w].call.ok

(* ---- C4 ---- *)
\* C4, as the claim is written: a Sell filled at the topmost grid level gets
\* no replacement order.
C4_TopSellNotReplaced ==
    [][\A w \in Threads : Handled(w) =>
        LET grid == eng[wk[w].engine].grid_prices
            r == Head(wk[w].filled_orders)
        IN  (recs[r].side = "Sell" /\ recs[r].price = grid[Len(grid)]) =>
                wk'[w].call.side = "none" /\ exch' = exch
    ]_vars

\* C4, amended: a Sell filled at the topmost grid level is replaced by a Buy
\* at the next lower level (200 gives 175 on the grid 100, 125, 150, 175, 200);
\* it is a Buy at the topmost level for which no next level is found.
C4_TopSellReplacedBelow ==
    [][\A w \in Threads : Handled(w) =>
        LET grid == eng[wk[w].engine].grid_prices
            r == Head(wk[w].filled_orders)
            call == wk'[w].call
        IN  /\ FindNextGridLevel(<<10000, 12500, 15000, 17500, 20000>>, 20000, "Sell")
                   = 17500
            /\ FindNextGridLevel(<<10000, 12500, 15000, 17500, 20000>>, 20000, "Buy")
                   = None
            /\ (recs[r].side = "Sell" /\ recs[r].price = grid[Len(grid)]) =>
                   /\ call.side = "Buy"
                   /\ call.price = grid[Len(grid) - 1]
                   /\ call.ok => \E id \in exch' \ exch :
                                    id[1] = "Buy" /\ id[2] = grid[Len(grid) - 1]
    ]_vars

\* a Sell filled at the topmost level has been replaced by a Buy one level down
C4_Witness ==
    \E w \in Threads :
        LET grid == eng[wk[w].engine].grid_prices
        IN  /\ wk[w].pc = "rebalance"
            /\ wk[w].call.filled_side = "Sell"
            /\ wk[w].call.filled_price = grid[Len(grid)]
            /\ wk[w].call.side = "Buy"
            /\ wk[w].call.price = grid[Len(grid) - 1]
            /\ wk[w].call.ok

(* ---- C5 ---- *)
\* C5: once stop has returned success with its cancel-all accepted, and no
\* polling thread is inside a cycle any more, no order placed by the engine
\* is open on the exchange.
C5_NoOrderOpenAfterStop ==
    ( /\ ctl.pc = "return"
      /\ ctl.op = "stop"
      /\ ctl.status = "success"
      /\ ctl.why = "cancelled"
      /\ \A w \in Threads : wk[w].pc = "loop" )
    => exch = {}

(* ---- C6 ---- *)
\* C6: at every moment of any sequence of start and stop calls, at most one
\* polling thread is alive.
C6_AtMostOneWorker == Cardinality(Threads) <= 1

(* ---- C7 ---- *)
\* C7: a polling thread begins a reconcile pass only for the run that spawned
\* it: once stop has shut that run's engine down, the thread passes its loop
\* test no more, so only the thread of the current run ever passes it.
C7_NoPassAfterShutdown ==
    [][\A w \in Threads :
          (wk[w].pc = "loop" /\ w <= Len(wk') /\ wk'[w].pc = "cycle") => w = bot_thread
    ]_vars

(* ---- C8 ---- *)
\* C8: from the return of a successful stop until the next successful start
\* the newest status row has is_running = false; so whenever the bot is not
\* running and no stop is under way, the newest row says is_running = false.
C8_StoppedStatusStays ==
    (~running /\ ctl.pc \notin {"t_shutdown", "t_join"}) => ~dbStatus.is_running

(* ---- C9 ---- *)
\* C9: start called while the bot runs or while it has no configuration, and
\* stop called while it does not run, return an error at once: without a
\* gateway call, without a status row, and with the running flag, the
\* configuration, the engine and the polling threads as they were.
C9_RejectedCallsChangeNothing ==
    [][(ctl.pc = "idle" /\ ctl'.op \in {"start", "stop"}) =>
        LET why == IF ctl'.op = "stop" THEN (IF running THEN "none" ELSE "stopped")
                   ELSE IF running THEN "running"
                   ELSE IF config = NoConfig THEN "unconfigured"
                   ELSE "none"
        IN  IF why = "none"
            THEN ctl'.pc # "return"
            ELSE /\ ctl' = Return(ctl'.op, "error", why)
                 /\ UNCHANGED <<running, config, strategy, bot_thread, error_message,
                                eng, recs, wk, exch, starts, fills, faults, dbStatus>>
    ]_vars

\* a start has been rejected because the bot runs
C9_Witness ==
    /\ ctl = Return("start", "error", "running")
    /\ running
    /\ Threads # {}

(* ---- C10 ---- *)
\* C10: a start that fails after its guards, because the price is unavailable
\* or because initialize_grid fails, never raises the running flag, spawns no
\* polling thread and writes no status row, and the bot stays configured.
C10_FailedStartLeavesStopped ==
    [][(ctl.op = "start" /\ ctl' # ctl /\ ctl'.pc # "idle"
            /\ ~(ctl'.pc = "return" /\ ctl'.status = "success")) =>
        /\ ~running /\ ~running'
        /\ wk' = wk
        /\ bot_thread' = bot_thread
        /\ dbStatus' = dbStatus
        /\ ctl'.pc = "return" =>
              /\ ctl'.status = "error"
              /\ ctl'.why \in {"connect", "initialize"}
              /\ config' # NoConfig
    ]_vars

\* a start has failed in initialize_grid
C10_Witness ==
    /\ ctl = Return("start", "error", "initialize")
    /\ ~running
    /\ strategy # None

(* ---- C11 ---- *)
\* the configurations a caller can have given to configure
Given == {StoredConfig(c) : c \in {r \in RawConfigs : ValidConfig(r)}}

\* C11: when a start has failed with a connection or an initialization
\* error, the stored configuration is the one it was before the call: its
\* bounds are still bounds that were given to configure.
C11_FailedStartKeepsConfig ==
    ( /\ ctl.pc = "return"
      /\ ctl.op = "start"
      /\ ctl.status = "error"
      /\ ctl.why \in {"connect", "initialize"}
      /\ starts = 1 )
    => config \in Given

(* ---- C12 ---- *)
\* C12: the auto-adjustment lasts for the run only: when stop has returned
\* success the configured range is again the range given to configure.
C12_RangeRestoredByStop ==
    (ctl.pc = "return" /\ ctl.op = "stop" /\ ctl.status = "success")
    => config \in Given

(* ---- C13 ---- *)
\* C13: while the bot is running no control operation changes the stored
\* configuration, and configure does not succeed.
C13_ConfigFixedWhileRunning ==
    [][running =>
          /\ config' = config
          /\ ~(ctl' # ctl /\ ctl' = Return("configure", "success", "none"))
    ]_vars

Alive(w) == w <= Len(wk') /\ wk'[w] # NoThread

\* C15: a cycle that raises records the error and leaves the thread that ran
\* it alive at its loop test, with its cycle count kept; a thread ends only
\* at the loop test, when the running flag is down.
C15_RaiseKeepsWorker ==
    [][\A w \in Threads :
          /\ ~Alive(w) => (wk[w].pc = "loop" /\ ~running)
          /\ (wk[w].pc # "loop" /\ faults' # faults /\ (Alive(w) => wk'[w] # wk[w])) =>
                /\ error_message'
                /\ Alive(w)
                /\ wk'[w].pc = "loop"
                /\ wk'[w].iteration = wk[w].iteration
    ]_vars

\* after a cycle that raised, the thread has called check_and_rebalance again
C15_Witness ==
    /\ error_message
    /\ running
    /\ faults > 0
    /\ \E w \in Threads : wk[w].pc = "items" /\ wk[w].iteration > 1

(* ---- C16 ---- *)
\* C16: a cycle that completes without an exception leaves no last error.
C16_GoodCycleClearsError ==
    [][\A w \in Threads :
          (wk[w].pc = "rebalance" /\ Alive(w) /\ wk'[w].pc = "loop" /\ faults' = faults)
              => ~error_message'
    ]_vars

(* ---- C17 ---- *)
\* C17: when initialization at price p succeeds and every placement succeeds,
\* the engine's Active records are one Buy on each grid level below p, one
\* Sell on each level above p and nothing at p, and exactly these orders are
\* open on the exchange; at 150 on the grid 100, 125, 150, 175, 200 these are
\* Buys at 100 and 125 and Sells at 175 and 200.
C17_InitialSidesByPrice ==
    [][\A p \in Prices :
          StartInit(p, TRUE, Seeded(eng[strategy].grid_prices, p)) =>
            LET grid == eng[strategy].grid_prices
                orders == Range(eng'[strategy'].active_orders)
                example == PlaceInitial(<<100, 125, 150, 175, 200>>, 150, {1, 2, 4, 5}, 1,
                                        [heap |-> <<>>, orders |-> <<>>, open |-> {}])
            IN  /\ {<<example.heap[r].side, example.heap[r].price, example.heap[r].status>> :
                        r \in Range(example.orders)}
                     = {<<"Buy", 100, "active">>, <<"Buy", 125, "active">>,
                        <<"Sell", 175, "active">>, <<"Sell", 200, "active">>}
                /\ \A r \in orders : recs'[r].status = "active"
                /\ \A r \in orders : recs'[r].price \in Range(grid) \ {p}
                /\ \A k \in 1..Len(grid) :
                      LET at(side) == {r \in orders : /\ recs'[r].price = grid[k]
                                                      /\ recs'[r].side = side}
                      IN  /\ Cardinality(at("Buy")) = IF grid[k] < p THEN 1 ELSE 0
                          /\ Cardinality(at("Sell")) = IF grid[k] > p THEN 1 ELSE 0
                /\ exch' = {recs'[r].id : r \in orders}
    ]_vars

\* initialization at a price that is a level of the grid has placed a Buy
\* below it and a Sell above it
C17_Witness ==
    /\ ctl.op = "start" /\ ctl.pc = "s_spawn"
    /\ \E k \in 2..(Len(eng[strategy].grid_prices) - 1) :
          LET grid == eng[strategy].grid_prices
          IN  /\ \E r \in ActiveOrders(strategy) :
                    recs[r].side = "Buy" /\ recs[r].price = grid[k - 1]
              /\ \E r \in ActiveOrders(strategy) :
                    recs[r].side = "Sell" /\ recs[r].price = grid[k + 1]
              /\ \A r \in ActiveOrders(strategy) : recs[r].price # grid[k]

(* ---- C18 ---- *)
\* thread w has completed a pass of check_and_rebalance
PassDone(w) == wk[w].pc = "rebalance" /\ wk[w].filled_orders = <<>>

\* C18: when a pass has completed, no order was matched during it and every
\* replacement was placed, the ids of the engine's Active records are the ids
\* of its orders that are open on the exchange.
C18_ActiveIsOpenAfterPass ==
    \A w \in Threads : PassDone(w) =>
        {recs[r].id : r \in ActiveOrders(wk[w].engine)} = exch

(* ---- C19 ---- *)
\* the correlation ids of the records an engine has created
Ids(e) == {recs[r].id : r \in Orders(e)}

\* C19: a record created for a replacement has a correlation id that no
\* record created before it in the run has.
C19_FreshCorrelationId ==
    [][\A w \in Threads :
          (Handled(w) /\ wk'[w].call.ok) =>
              Cardinality(Ids(wk[w].engine)') = Cardinality(Ids(wk[w].engine)) + 1
    ]_vars

(* ---- C20 ---- *)
\* the defects a configuration request can have
Defective(c) ==
    \/ c.missing
    \/ ~c.numeric
    \/ c.grid_lower >= c.grid_upper
    \/ c.grid_levels < 2
    \/ c.order_amount <= 0

\* C20: configure with a request that has any of the defects, alone or
\* combined, returns an error and leaves the stored configuration and the
\* persisted status as they were; a request without defect is stored.
C20_DefectiveConfigRejected ==
    [][(ctl.pc = "idle" /\ ctl'.op = "configure") =>
          \A c \in AllRawConfigs : Configure(c) =>
              IF Defective(c)
              THEN /\ ctl'.status = "error"
                   /\ config' = config
                   /\ dbStatus' = dbStatus
              ELSE /\ ctl'.status = "success"
                   /\ config' = StoredConfig(c)
    ]_vars

\* a defective request was rejected while a valid configuration and its
\* status row were in place
C20_Witness ==
    /\ ctl = Return("configure", "error", "invalid")
    /\ config \in Given
    /\ dbStatus # NoStatus

(* ---- C21 ---- *)
\* n is x / 100 rounded to the nearest integer
Nearest(n, x) == 2 * Abs(100 * n - x) <= 100

\* C21: when start fetches a price p outside the configured range, the engine
\* is constructed with the range 0.95 p .. 1.05 p rounded to 2 decimals (230
\* with 100 .. 200 configured gives 218.5 .. 241.5); when p is within the
\* configured range, the engine is constructed with that range.
C21_EngineRangeFromPrice ==
    [][(ctl.pc = "s_price" /\ ctl'.pc = "s_init") =>
          LET p == ctl'.price
              e == eng'[strategy']
          IN  IF p < config.grid_lower \/ p > config.grid_upper
              THEN /\ Nearest(e.lower_price, 95 * p)
                   /\ Nearest(e.upper_price, 105 * p)
                   /\ (p = 23000 /\ config.grid_lower = 10000 /\ config.grid_upper = 20000)
                          => (e.lower_price = 21850 /\ e.upper_price = 24150)
              ELSE /\ e.lower_price = config.grid_lower
                   /\ e.upper_price = config.grid_upper
    ]_vars

\* start has fetched 230 with 100 .. 200 configured and built the engine
C21_Witness ==
    /\ ctl.op = "start" /\ ctl.pc = "s_init"
    /\ ctl.price = 23000
    /\ eng[strategy].lower_price = 21850
    /\ eng[strategy].upper_price = 24150

RecordSlots == 1..(3 * MaxStarts + 2 * MaxFills)

\* the record in slot r is Active in the running engine and its order is no
\* longer open on the exchange
Undetected(r) ==
    /\ running
    /\ strategy # None
    /\ r \in ActiveOrders(strategy)
    /\ recs[r].id \notin exch

\* C23: with the bot running and every fetch succeeding, when the mark loop
\* of a pass ends no record is Active whose order the fetch of that pass did
\* not report open, and an Active order that has left the exchange's open
\* orders is eventually marked Filled.
C23_FillDetectedByNextPass ==
    /\ [][\A w \in Threads :
             (wk[w].pc \in {"items", "mark"} /\ wk'[w].pc = "rebalance") =>
                 \A r \in Range(eng'[wk[w].engine].active_orders) :
                     recs'[r].status = "active" => recs'[r].id \in wk[w].open_order_ids
       ]_vars
    /\ \A r \in RecordSlots :
          Undetected(r) ~> (r <= Len(recs) /\ recs[r].status = "filled")

\* a matched order has been marked Filled by the pass that followed
C23_Witness ==
    /\ running
    /\ fills > 0
    /\ \E w \in Threads : \E r \in Range(wk[w].filled_orders) :
          /\ wk[w].pc = "rebalance"
          /\ recs[r].status = "filled"
          /\ recs[r].id \notin exch
          /\ recs[r].id \notin wk[w].open_order_ids

(* ---- C24 ---- *)
\* stop() has passed its guard, that is, it was called on a running bot
StopAccepted == ctl.op = "stop" /\ ctl.pc \in {"t_shutdown", "t_join"}

\* C24: stop called on a running bot returns, whether or not the polling
\* thread ends, and what it returns is success; from its guard on the running
\* flag is down and the configuration is in place.
C24_StopAlwaysSucceeds ==
    /\ [](StopAccepted => ~running /\ config # NoConfig)
    /\ []((ctl.op = "stop" /\ ctl.pc = "return" /\ ctl.why # "stopped") =>
              /\ ctl.status = "success"
              /\ ~running
              /\ config # NoConfig)
    /\ StopAccepted ~> (ctl.op = "stop" /\ ctl.pc = "return" /\ ctl.status = "success")

\* stop has returned success while the polling thread it waited for is alive
C24_Witness ==
    /\ ctl.op = "stop" /\ ctl.pc = "return" /\ ctl.status = "success"
    /\ ~running
    /\ bot_thread \in Threads
    /\ wk[bot_thread].pc # "loop"

(* ---- C25 ---- *)
\* the (api_key, api_secret) pairs a configuration can carry
Credentials == {"key1", "key2"} \X {"secret1", "secret2"}

\* self.config as the dict configure() stored it, credentials included
ConfigDict(creds) ==
    [api_key |-> creds[1], api_secret |-> creds[2],
     grid_levels |-> config.grid_levels, grid_lower |-> config.grid_lower,
     grid_upper |-> config.grid_upper, order_amount |-> config.order_amount]

\* a variant that hands out the stored dict itself
GetStatusWholeDict(creds) ==
    [running |-> running,
     configured |-> config # NoConfig,
     error |-> error_message,
     config |-> IF config # NoConfig THEN <<ConfigDict(creds)>> ELSE <<>>]

\* BotManager.get_status; <<>> stands for the None it returns for an empty config
GetStatus(creds) ==
    LET dict == ConfigDict(creds)
    IN  [running |-> running,
         configured |-> config # NoConfig,
         error |-> error_message,
         config |-> IF config # NoConfig
                    THEN <<[grid_levels |-> dict.grid_levels,
                            grid_lower |-> dict.grid_lower,
                            grid_upper |-> dict.grid_upper,
                            order_amount |-> dict.order_amount]>>
                    ELSE <<>>]

\* C25: in every state the status is the same for any two configurations
\* that differ in the credentials only, and its view of the configuration has
\* no field for the API key or the API secret.
C25_StatusWithoutCredentials ==
    /\ \A a, b \in Credentials : GetStatus(a) = GetStatus(b)
    /\ \A a \in Credentials : \A k \in 1..Len(GetStatus(a).config) :
          DOMAIN GetStatus(a).config[k] \cap {"api_key", "api_secret"} = {}

\* a configured, running bot with an error recorded: every part of the status
\* is filled in
C25_Witness ==
    /\ running
    /\ error_message
    /\ \A a \in Credentials : GetStatus(a).config # <<>>

(* ---- C26 ---- *)
\* the engine was constructed with at least 2 levels and lower < upper
ProperRange(e) == eng[e].grid_levels >= 2 /\ eng[e].lower_price < eng[e].upper_price

C27_GridStrictlyIncreasing ==
    \A e \in Engines : ProperRange(e) =>
        \A i, j \in 1..Len(eng[e].grid_prices) :
            i < j => eng[e].grid_prices[i] < eng[e].grid_prices[j]

(* ---- C28 ---- *)
\* C28: constructing an engine with levels < 2 or lower >= upper fails: no
\* engine with a level sequence comes out of it.
C28_ImproperRangeRejected ==
    [][\A levels \in 0..MaxLevels, lower \in GridBounds, upper \in GridBounds :
          (Construct(levels, lower, upper) /\ (levels < 2 \/ lower >= upper)) =>
              /\ ctl'.status = "error"
              /\ UNCHANGED <<strategy, eng>>
    ]_vars

(* ---- C29 ---- *)
\* C29: initialize_grid fails exactly when its price fetch returns no price,
\* and then places nothing; with a price it succeeds whichever placements
\* fail, and the engine's records are the orders whose placement succeeded,
\* all Active, and these are the orders open on the exchange.
C29_InitializeFailsOnlyWithoutPrice ==
    [][ctl.pc = "s_init" =>
          \A p \in Ticker, placed \in SUBSET (1..3) : StartInit(p, TRUE, placed) =>
              IF p = None
              THEN /\ ctl'.pc = "return" /\ ctl'.status = "error"
                   /\ UNCHANGED <<exch, eng, recs>>
              ELSE LET grid == eng[strategy].grid_prices
                       orders == Range(eng'[strategy'].active_orders)
                   IN  /\ ctl'.pc = "s_spawn"
                       /\ Cardinality(orders) = Cardinality(placed)
                       /\ \A r \in orders : recs'[r].status = "active"
                       /\ {<<recs'[r].side, recs'[r].price>> : r \in orders}
                            = {<<IF grid[k] < p THEN "Buy" ELSE "Sell", grid[k]>> :
                                   k \in placed}
                       /\ exch' = {recs'[r].id : r \in orders}
    ]_vars

\* initialization has succeeded with one order placed, the other placements
\* having failed
C29_Witness ==
    /\ ctl.op = "start" /\ ctl.pc = "s_spawn"
    /\ Cardinality(ActiveOrders(strategy)) = 1
    /\ Cardinality(exch) = 1

(* ---- C30 ---- *)
\* the filled order r has no next level: a Buy at the top or a Sell at the
\* bottom of the grid
AtBoundary(grid, r) ==
    \/ recs[r].side = "Buy" /\ recs[r].price = grid[Len(grid)]
    \/ recs[r].side = "Sell" /\ recs[r].price = grid[1]

\* C30: for a Buy filled at the topmost level or a Sell filled at the
\* bottommost level the pass calls no placement and adds no record: the
\* engine's orders and the exchange's open orders stay as they are.
C30_NoReplacementBeyondGrid ==
    [][\A w \in Threads : Handled(w) =>
        LET e == wk[w].engine
            r == Head(wk[w].filled_orders)
        IN  AtBoundary(eng[e].grid_prices, r) =>
                /\ wk'[w].call.side = "none"
                /\ ~wk'[w].call.ok
                /\ exch' = exch
                /\ eng'[e].active_orders = eng[e].active_orders
                /\ \A q \in Orders(e) : recs'[q] = recs[q]
                /\ faults' = faults
    ]_vars

\* a Buy at the topmost level was filled and the pass has gone past it
\* without a placement
C30_Witness ==
    \E w \in Threads :
        LET grid == eng[wk[w].engine].grid_prices
        IN  /\ wk[w].pc = "rebalance"
            /\ wk[w].call.filled_side = "Buy"
            /\ wk[w].call.filled_price = grid[Len(grid)]
            /\ wk[w].call.side = "none"
            /\ \A q \in Orders(wk[w].engine) : recs[q].side = "Buy"

(* ---- C31 ---- *)
\* k is the position used for price: a level at minimum distance, and the
\* first of these
NearestFirst(grid, price, k) ==
    /\ \A j \in 1..Len(grid) : Abs(grid[k] - price) <= Abs(grid[j] - price)
    /\ \A j \in 1..(k - 1) : Abs(grid[j] - price) > Abs(grid[k] - price)

\* C31: for a price that is no grid level the position used is that of the
\* level at minimum distance, the lowest such position when several levels
\* are at that distance, and the next level is taken from that position: one
\* up for a Buy, one down for a Sell, none beyond the ends.
C31_NearestLevelLowestIndex ==
    [][(ctl.pc = "idle" /\ ctl'.op = "find_next" /\ ctl'.status = "success") =>
          LET grid == eng[strategy].grid_prices
              price == ctl'.lower
              side == ctl'.why
          IN  (\A j \in 1..Len(grid) : grid[j] # price) =>
                \E k \in 1..Len(grid) :
                    /\ NearestFirst(grid, price, k)
                    /\ ctl'.price = IF side = "Buy"
                                    THEN (IF k < Len(grid) THEN grid[k + 1] ELSE None)
                                    ELSE (IF k > 1 THEN grid[k - 1] ELSE None)
    ]_vars

\* 125 is as far from 100 as from 150 on the grid 100, 150, 200: the position
\* is that of 100, and a Buy there is followed by 150
C31_Witness ==
    /\ ctl.op = "find_next" /\ ctl.status = "success"
    /\ eng[strategy].grid_prices = <<10000, 15000, 20000>>
    /\ ctl.lower = 12500
    /\ ctl.why = "Buy"
    /\ ctl.price = 15000

(* ---- C32 ---- *)
\* thread w has just found an order filled in its pass: r is that order
Marked(w, r) ==
    /\ w \in Threads
    /\ wk[w].pc = "mark"
    /\ w <= Len(wk')
    /\ wk'[w].filled_orders = Append(wk[w].filled_orders, r)

\* C32: when the placement of a replacement fails, the engine gets no order
\* record for it and the filled record stays Filled; a Filled record never
\* becomes Active again, and a pass handles only the records it found Active
\* and marked itself, so that no later pass comes back to the placement that
\* failed.
C32_FailedReplacementNotRetried ==
    [][/\ \A w \in Threads :
             (Handled(w) /\ ~wk'[w].call.ok /\ wk'[w].call.price # None) =>
                 /\ eng'[wk[w].engine].active_orders = eng[wk[w].engine].active_orders
                 /\ recs' = recs
                 /\ recs'[Head(wk[w].filled_orders)].status = "filled"
       /\ \A r \in 1..Len(recs) :
             (recs[r].status = "filled" /\ r <= Len(recs') /\ recs'[r].id = recs[r].id) =>
                 recs'[r].status = "filled"
       /\ \A w \in Threads :
             /\ wk[w].pc \in {"loop", "cycle", "items"} => wk[w].filled_orders = <<>>
             /\ \A r \in 1..Len(recs) :
                   Marked(w, r) => recs[r].status = "active" /\ recs'[r].status = "filled"
             /\ (w <= Len(wk') /\ wk[w].pc # "mark") =>
                   \A k \in 1..Len(wk'[w].filled_orders) :
                       \E j \in 1..Len(wk[w].filled_orders) :
                           wk'[w].filled_orders[k] = wk[w].filled_orders[j]
      ]_vars

\* the Buy at 100 of the grid 100, 150, 200 was filled and the Sell at 150
\* could not be placed: the engine has its two initial records, the one at
\* 100 Filled, and a later pass has ended without a placement
C32_Witness ==
    \E w \in Threads :
        /\ wk[w].pc = "loop"
        /\ wk[w].iteration = 2
        /\ strategy # None
        /\ eng[strategy].grid_prices = <<10000, 15000, 20000>>
        /\ Cardinality(Orders(strategy)) = 2
        /\ \E r \in Orders(strategy) :
              recs[r].price = 10000 /\ recs[r].side = "Buy" /\ recs[r].status = "filled"
        /\ \E r \in Orders(strategy) :
              recs[r].price = 20000 /\ recs[r].side = "Sell" /\ recs[r].status = "active"
        /\ faults = 1
        /\ fills = 1

(* ---- C33 ---- *)
\* C33: once stop is accepted on a running bot, the polling thread of that
\* run eventually reads the flag down and ends, whatever is called on the
\* supervisor afterwards.
C33_StoppedWorkerExits ==
    \A w \in 1..MaxRestarts :
        (StopAccepted /\ bot_thread = w /\ w \in Threads) ~> (w \notin Threads)

(* ---- C34 ---- *)
\* thread w ends a cycle in this step without an exception
CycleEnds(w) ==
    /\ w \in Threads
    /\ wk[w].pc = "rebalance"
    /\ wk[w].filled_orders = <<>>
    /\ w <= Len(wk')
    /\ wk'[w].pc = "loop"
    /\ faults' = faults

\* thread w leaves a cycle by an exception in this step
CycleFails(w) ==
    /\ w \in Threads
    /\ wk[w].pc \in {"items", "mark", "rebalance"}
    /\ w <= Len(wk')
    /\ wk'[w].pc = "loop"
    /\ faults' = faults + 1

\* C34 as stated: every cycle begins with the reconcile pass, a status row is
\* written in exactly the cycles whose number, counted from 1, is a multiple
\* of 6 and which did not raise, and a cycle that raised is counted.
C34_StatusEverySixthCycle ==
    [][\A w \in Threads :
          /\ (wk[w].pc = "cycle" /\ wk' # wk) =>
                wk'[w].pc = "items" /\ wk'[w].iteration = wk[w].iteration + 1
          /\ CycleFails(w) => wk'[w].iteration = wk[w].iteration /\ dbStatus' = dbStatus
          /\ CycleEnds(w) =>
                (dbStatus' # dbStatus <=> wk[w].iteration % StatusEvery = 0)
      ]_vars

\* C34, amended: every cycle begins with the reconcile pass; a status row is
\* written only in cycles whose number, counted from 1, is a multiple of 6
\* and which did not raise, and in such a cycle it is written when the ticker
\* gives the price; a cycle that raised is counted.
C34_StatusEverySixthCycleWithPrice ==
    [][\A w \in Threads :
          /\ (wk[w].pc = "cycle" /\ wk' # wk) =>
                wk'[w].pc = "items" /\ wk'[w].iteration = wk[w].iteration + 1
          /\ CycleFails(w) => wk'[w].iteration = wk[w].iteration /\ dbStatus' = dbStatus
          /\ CycleEnds(w) =>
                /\ dbStatus' # dbStatus => wk[w].iteration % StatusEvery = 0
                /\ (wk[w].iteration % StatusEvery = 0 /\ PeriodicStatus(w, TRUE)) =>
                      dbStatus' = [is_running |-> TRUE, parity |-> 1 - dbStatus.parity]
      ]_vars

\* the sixth cycle has ended and has written the second status row of the
\* run, after an earlier cycle raised
C34_Witness ==
    \E w \in Threads :
        /\ wk[w].pc = "loop"
        /\ wk[w].iteration = StatusEvery
        /\ error_message
        /\ faults = 1
        /\ dbStatus = [is_running |-> TRUE, parity |-> 0]

(* ---- C35 ---- *)
\* C35: the engine's stop succeeds on every engine, with or without order
\* records; it leaves the engine without order records and with its grid and
\* range as they were, so that a second stop right after the first changes
\* nothing in the engine.
C35_ShutdownIdempotent ==
    [][(ctl.pc = "idle" /\ ctl'.op = "engine_stop") =>
          /\ ctl'.status = "success"
          /\ strategy' = strategy
          /\ eng'[strategy] = [eng[strategy] EXCEPT !.active_orders = <<>>]
          /\ eng[strategy].active_orders = <<>> => eng'[strategy] = eng[strategy]
      ]_vars

\* stop has been called on the engine of a started bot when it had no order
\* records, after a stop or after a start that placed none: it has succeeded,
\* one cancellation has failed, the grid of three levels is in place
C35_Witness ==
    /\ ctl.op = "engine_stop" /\ ctl.pc = "return"
    /\ ctl.status = "success"
    /\ ctl.why = "empty"
    /\ faults = 1
    /\ exch = {}
    /\ eng[strategy].grid_prices = <<10000, 15000, 20000>>
    /\ eng[strategy].active_orders = <<>>

(* ---- C36 ---- *)
\* C36: in a pass whose fetch of the open orders failed no order record
\* changes state, no trade is recorded and no replacement is placed; where
\* every fetch fails, the order records are the initial ones, all Active and
\* without a trade, and the exchange holds no replacement.
C36_FailedFetchChangesNothing ==
    /\ \A e \in Engines : \A r \in Orders(e) :
          /\ recs[r].status = "active"
          /\ recs[r].trades = 0
          /\ recs[r].id[3] = 0
    /\ \A id \in exch : id[3] = 0

(* ---- C37 ---- *)
\* C37: the fill of an order record is processed at most once, however the
\* passes of the polling threads interleave: the record has at most one
\* trade, and at most one thread has it among the filled orders it places
\* replacements for.
C37_FillProcessedOnce ==
    \A r \in 1..Len(recs) :
        /\ recs[r].trades <= 1
        /\ Cardinality({w \in Threads : r \in Range(wk[w].filled_orders)}) <= 1

(* ---- C38 ---- *)
\* the order records of engine e that initialize_grid placed: their ids
\* carry no time stamp
InitialOrders(e) == {r \in Orders(e) : recs[r].id[3] = 0}

\* the number of Active order records of engine e in a heap
ActiveCount(heap, orders) ==
    Cardinality({r \in Range(orders) : heap[r].status = "active"})

\* C38: while the bot runs, the engine has at most as many Active order
\* records as initialize_grid placed orders; a fill that is detected takes
\* one record out of the Active ones, and handling it adds at most one.
C38_ActiveWithinInitial ==
    /\ [](\A e \in Engines :
             Cardinality(ActiveOrders(e)) <= Cardinality(InitialOrders(e)))
    /\ [][\A w \in Threads :
             LET e == wk[w].engine
             IN  /\ (\E r \in 1..Len(recs) : Marked(w, r)) =>
                       ActiveCount(recs', eng'[e].active_orders)
                           = ActiveCount(recs, eng[e].active_orders) - 1
                 /\ Handled(w) =>
                       /\ ActiveCount(recs', eng'[e].active_orders)
                              <= ActiveCount(recs, eng[e].active_orders) + 1
                       /\ ActiveCount(recs', eng'[e].active_orders)
                              >= ActiveCount(recs, eng[e].active_orders)
          ]_vars

\* a fill was detected and its replacement placed: the engine has as many
\* Active records as initialize_grid placed, one of them a replacement
C38_Witness ==
    /\ strategy # None
    /\ Cardinality(InitialOrders(strategy)) = 2
    /\ Cardinality(ActiveOrders(strategy)) = 2
    /\ \E r \in ActiveOrders(strategy) : recs[r].id[3] > 0
    /\ \E r \in Orders(strategy) : recs[r].status = "filled"

(* ---- C39 ---- *)
\* C39: when start has succeeded, the range of the engine has its lower bound
\* below its upper bound and contains the price start fetched, whatever that
\* price was and whether or not the range was adjusted to it.
C39_RangeHoldsFetchedPrice ==
    (ctl.op = "start" /\ ctl.pc = "return" /\ ctl.status = "success") =>
        /\ eng[strategy].lower_price < eng[strategy].upper_price
        /\ eng[strategy].lower_price <= ctl.price
        /\ ctl.price <= eng[strategy].upper_price

====
